---- MODULE Spec2Model ----
(***************************************************************************)
(* A model of the two GitHub automation scripts of IceCubeClone:           *)
(*   .github/scripts/pr-review.js   (getReview, reviewPR)                  *)
(*   the issue agent script         (analyzeIssueWithKnowledgeBase,        *)
(*                                   applyChanges, processIssue)           *)
(* Text is modelled as sequences of one-character strings, a diff patch as *)
(* the sequence of its lines, a model response as a sequence of tokens.    *)
(***************************************************************************)
EXTENDS Integers, Sequences, FiniteSets, TLC

VARIABLES
    patch,        \* locator: file.patch, as the sequence of its lines
    reviewLine,   \* locator: review.line, the target new-file line number
    position,     \* locator: the position the scan left (NoPosition = null)
    locPc,        \* locator: "build" while the patch is drawn, "done" after the scan
    response,     \* getReview: what anthropic.messages.create gave
    reviews,      \* getReview: what getReview returned
    grPc,         \* getReview: "call" before the call, "returned" after it
    rvPc,         \* reviewPR: where the run stands
    files,        \* reviewPR: the result of pulls.listFiles
    headSha,      \* reviewPR: pullRequest.head.sha
    fileIdx,      \* reviewPR: the index of the file of the for loop (1-based)
    reviewIdx,    \* reviewPR: the index of the review of the inner loop
    processedFiles,
    skippedFiles,
    errorFiles,
    aiLog,        \* reviewPR: the getReview calls made, in order
    commentCalls, \* reviewPR: the createReviewComment calls made, in order
    summaries,    \* reviewPR: the summary annotations emitted
    chContent,    \* one change: the content read from the file
    chChange,     \* one change: the ChangeSpec
    chResult,     \* one change: the content written back
    chPc,         \* one change: "read" before it is applied, "written" after
    solObject,    \* solution parsing: a JSON object text
    solText,      \* solution parsing: a response text built around it
    solResult,    \* solution parsing: what the analysis of solText gave
    solBare,      \* solution parsing: what the analysis of solObject gave
    solPc,        \* solution parsing: which of the two analyses have run
    isPc,         \* processIssue: where the run stands
    baseBranch,   \* processIssue: baseBranch
    branch,       \* processIssue: what issue-<number> was created from
    issueResponse,\* processIssue: what bedrock.send gave
    solution,     \* processIssue: solution
    changeIdx,    \* applyChanges: the index of the change of the for loop
    tree,         \* the working tree: path -> [exists, content]
    applyLog,     \* applyChanges: what became of each change, in order
    trace         \* processIssue: the steps taken, in order

locVars == <<patch, reviewLine, position, locPc>>
grVars == <<response, reviews, grPc>>
rvCounters == <<processedFiles, skippedFiles, errorFiles>>
rvVars ==
    <<rvPc, files, headSha, fileIdx, reviewIdx, rvCounters, aiLog,
      commentCalls, summaries>>

chVars == <<chContent, chChange, chResult, chPc>>

solVars == <<solObject, solText, solResult, solBare, solPc>>

isVars ==
    <<isPc, baseBranch, branch, issueResponse, solution, changeIdx, tree,
      applyLog, trace>>

vars == <<locVars, grVars, rvVars, chVars, solVars, isVars>>

(***************************************************************************)
(* Bounds of the model.                                                    *)
(***************************************************************************)
MaxPatchLines == 5
MaxNewStart == 4
MaxReviewLine == 5
MaxReviews == 2
MaxFiles == 2
MaxContentLen == 3
MaxOriginalLen == 2
MaxReplacementLen == 2
MaxObjectLen == 4
MaxChanges == 2

(***************************************************************************)
(* Text helpers.                                                           *)
(***************************************************************************)
\* String.prototype.startsWith
StartsWith(s, p) ==
    /\ Len(s) >= Len(p)
    /\ SubSeq(s, 1, Len(p)) = p

\* white space, in a text given as a sequence of tokens [k |-> kind, ...]
IsSpace(tok) == tok.k \in {"ws", "nl"}

\* String.prototype.trim
RECURSIVE TrimLeft(_)
TrimLeft(ts) ==
    IF ts # <<>> /\ IsSpace(Head(ts)) THEN TrimLeft(Tail(ts)) ELSE ts

RECURSIVE TrimRight(_)
TrimRight(ts) ==
    IF ts # <<>> /\ IsSpace(ts[Len(ts)])
    THEN TrimRight(SubSeq(ts, 1, Len(ts) - 1))
    ELSE ts

Trim(ts) == TrimRight(TrimLeft(ts))

(***************************************************************************)
(* Diff lines.  A line is its first characters (the scan reads at most     *)
(* three) and newStart, the number captured by the hunk-header pattern     *)
(* (0 when the pattern does not match the line).                           *)
(***************************************************************************)
HunkHeader(n) == [head |-> <<"@", "@", " ">>, newStart |-> n]
ContextLine == [head |-> <<" ", "x">>, newStart |-> 0]
AddedLine == [head |-> <<"+", "x">>, newStart |-> 0]
\* an added line whose text begins with "++", e.g. "++i;"
AddedPlusLine == [head |-> <<"+", "+", "+">>, newStart |-> 0]
RemovedLine == [head |-> <<"-", "x">>, newStart |-> 0]
\* a removed line whose text begins with "--", e.g. "-- comment"
RemovedDashLine == [head |-> <<"-", "-", "-">>, newStart |-> 0]
\* "\ No newline at end of file"
NoNewlineLine == [head |-> <<"\\", " ", "N">>, newStart |-> 0]
\* "--- a/file" and "+++ b/file" ahead of the first hunk
OldFileMarker == [head |-> <<"-", "-", "-">>, newStart |-> 0]
NewFileMarker == [head |-> <<"+", "+", "+">>, newStart |-> 0]

ContentLines ==
    {ContextLine, AddedLine, AddedPlusLine, RemovedLine, RemovedDashLine}

DiffLines ==
    {HunkHeader(n) : n \in 1..MaxNewStart} \cup ContentLines
        \cup {NoNewlineLine, OldFileMarker, NewFileMarker}

NoPosition == 0

\* the locator at rest, in the specifications of the other components
LocIdle ==
    /\ patch = <<>>
    /\ reviewLine = 0
    /\ position = NoPosition
    /\ locPc = "idle"

(***************************************************************************)
(* applyChanges, one change (issue agent 134-143).  Text is a sequence of  *)
(* characters; an optional JSON string is present or not.                  *)
(***************************************************************************)
Missing == [present |-> FALSE, s |-> <<>>]
Str(cs) == [present |-> TRUE, s |-> cs]

\* what !v tests: undefined and "" are falsy
Falsy(v) == ~v.present \/ v.s = <<>>

\* String.prototype.indexOf, 1-based; 0 when there is no occurrence
IndexOf(c, o) ==
    LET hits == {i \in 1..(Len(c) - Len(o) + 1) :
                     SubSeq(c, i, i + Len(o) - 1) = o}
    IN IF hits = {} THEN 0
       ELSE CHOOSE i \in hits : \A j \in hits : i <= j

\* GetSubstitution of String.prototype.replace for a string pattern:
\* $$ is a dollar, $& the matched text, $ with a backtick the text before
\* the match and $ with an apostrophe the text after it; every other
\* character stands for itself
RECURSIVE GetSubstitution(_, _, _, _)
GetSubstitution(r, matched, before, after) ==
    IF r = <<>> THEN <<>>
    ELSE IF Len(r) >= 2 /\ r[1] = "$" /\ r[2] \in {"$", "&", "tick", "apos"}
    THEN (CASE r[2] = "$" -> <<"$">>
            [] r[2] = "&" -> matched
            [] r[2] = "tick" -> before
            [] r[2] = "apos" -> after)
         \o GetSubstitution(SubSeq(r, 3, Len(r)), matched, before, after)
    ELSE <<r[1]>> \o GetSubstitution(Tail(r), matched, before, after)

\* a replace that appends the replacement when the original is not found
StringReplaceOrAppend(c, o, r) ==
    LET i == IndexOf(c, o) IN
    IF i = 0 THEN c \o r
    ELSE LET before == SubSeq(c, 1, i - 1)
             after == SubSeq(c, i + Len(o), Len(c))
         IN before \o GetSubstitution(r, o, before, after) \o after

\* content.replace(original, replacement), both strings
StringReplace(c, o, r) ==
    LET i == IndexOf(c, o) IN
    IF i = 0 THEN c
    ELSE LET before == SubSeq(c, 1, i - 1)
             after == SubSeq(c, i + Len(o), Len(c))
         IN before \o GetSubstitution(r, o, before, after) \o after

\* 138-143: the new content of the file
ApplyChange(content, change) ==
    IF ~Falsy(change.original)
    THEN StringReplace(content, change.original.s, change.replacement.s)
    ELSE change.replacement.s

Change(f, o, r) == [file |-> f, original |-> o, replacement |-> r]

\* applyChanges at rest
ChIdle ==
    /\ chContent = <<>>
    /\ chChange = Change(Missing, Missing, Missing)
    /\ chResult = <<>>
    /\ chPc = "idle"

(***************************************************************************)
(* analyzeIssueWithKnowledgeBase, the parsing of the response (issue agent *)
(* 96-111).  The response text is a sequence of tokens:                    *)
(*   "fj"  the seven characters of a json fence opener                     *)
(*   "f"   the three backticks of a fence                                  *)
(*   "nl"  a newline, "ws" a blank, "p" a letter of prose, "7" a digit     *)
(*   "{" and "}"                                                           *)
(*   "m"   an object member without braces or backticks                    *)
(*   "mf"  a member whose string value holds three backticks               *)
(*   "m0"  that member with the backticks taken out                        *)
(*   "sol" the members of a Solution, inside the braces of its object      *)
(*   "tick", "quote"  one backtick, one double quote                       *)
(***************************************************************************)
NoSol == [files |-> FALSE, hasChanges |-> FALSE, changes |-> <<>>]
STok(k) == [k |-> k, sol |-> NoSol]
SolTok(payload) == [k |-> "sol", sol |-> payload]

MemberKinds == {"m", "mf", "m0", "sol"}

\* the characters of a token, as far as the second one
Chars(tok) ==
    CASE tok.k = "fj" -> <<STok("tick"), STok("tick")>>
      [] tok.k = "f" -> <<STok("tick"), STok("tick")>>
      [] tok.k \in MemberKinds -> <<STok("quote"), STok("p")>>
      [] OTHER -> <<tok>>

RECURSIVE Flatten(_)
Flatten(ts) == IF ts = <<>> THEN <<>> ELSE Chars(Head(ts)) \o Flatten(Tail(ts))

\* responseText.match(/```json\n([\s\S]*?)\n```/): the opener, a newline,
\* the shortest text, a newline and three backticks
FenceOpeners(ts) ==
    {i \in 1..(Len(ts) - 1) : ts[i].k = "fj" /\ ts[i + 1].k = "nl"}

FenceClosers(ts, i) ==
    {j \in (i + 2)..(Len(ts) - 1) :
        ts[j].k = "nl" /\ ts[j + 1].k \in {"f", "fj"}}

FenceMatches(ts) == \E i \in FenceOpeners(ts) : FenceClosers(ts, i) # {}

Least(S) == CHOOSE x \in S : \A y \in S : x <= y
Greatest(S) == CHOOSE x \in S : \A y \in S : y <= x

FenceOpen(ts) == Least({i \in FenceOpeners(ts) : FenceClosers(ts, i) # {}})
FenceClose(ts) == Least(FenceClosers(ts, FenceOpen(ts)))

\* jsonMatch[1] || jsonMatch[0] for the fence pattern
FenceText(ts) ==
    LET group == SubSeq(ts, FenceOpen(ts) + 2, FenceClose(ts) - 1) IN
    IF group # <<>> THEN group
    ELSE SubSeq(ts, FenceOpen(ts), FenceClose(ts)) \o <<STok("f")>>

\* responseText.match(/{[\s\S]*}/): from the first "{" to the last "}"
BraceMatches(ts) ==
    \E i, j \in 1..Len(ts) : i < j /\ ts[i].k = "{" /\ ts[j].k = "}"

BraceText(ts) ==
    LET open == Least({i \in 1..Len(ts) : ts[i].k = "{"})
        close == Greatest({j \in 1..Len(ts) : ts[j].k = "}"})
    IN SubSeq(ts, open, close)

\* neither pattern matches: jsonMatch is responseText itself, a string, and
\* jsonMatch[1] || jsonMatch[0] is its second character, or its only one
StringIndexText(ts) ==
    LET cs == Flatten(ts) IN
    IF cs = <<>> THEN <<>>
    ELSE IF Len(cs) >= 2 THEN <<cs[2]>> ELSE <<cs[1]>>

\* 100-104
ExtractBraceFirst(ts) ==
    IF BraceMatches(ts) THEN BraceText(ts)
    ELSE IF FenceMatches(ts) THEN FenceText(ts)
    ELSE StringIndexText(ts)

ExtractJson(ts) ==
    IF FenceMatches(ts) THEN FenceText(ts)
    ELSE IF BraceMatches(ts) THEN BraceText(ts)
    ELSE StringIndexText(ts)

\* jsonStr.replace(/```json|```/g, '')
RECURSIVE StripFences(_)
StripFences(ts) ==
    IF ts = <<>> THEN <<>>
    ELSE IF Head(ts).k \in {"fj", "f"} THEN StripFences(Tail(ts))
    ELSE IF Head(ts).k = "mf" THEN <<STok("m0")>> \o StripFences(Tail(ts))
    ELSE <<Head(ts)>> \o StripFences(Tail(ts))

\* the depth of braces after each token of ts
RECURSIVE Depths(_, _)
Depths(ts, d) ==
    IF ts = <<>> THEN <<>>
    ELSE LET nd == CASE Head(ts).k = "{" -> d + 1
                     [] Head(ts).k = "}" -> d - 1
                     [] OTHER -> d
         IN <<nd>> \o Depths(Tail(ts), nd)

\* JSON.parse of the solution text: a number, or an object whose members
\* are member tokens and nested objects; the value is the text without its
\* white space
SolutionParse(text) ==
    LET ts == SelectSeq(text, LAMBDA tok : ~IsSpace(tok))
        n == Len(ts)
        ds == Depths(ts, 0)
    IN
    IF n = 1 /\ ts[1].k = "7"
    THEN [ok |-> TRUE, t |-> "number", members |-> <<>>]
    ELSE IF /\ n >= 2
            /\ ts[1].k = "{"
            /\ \A i \in 1..n : ts[i].k \in {"{", "}"} \cup MemberKinds
            /\ \A i \in 1..(n - 1) : ds[i] >= 1
            /\ ds[n] = 0
    THEN [ok |-> TRUE, t |-> "object", members |-> SubSeq(ts, 2, n - 1)]
    ELSE [ok |-> FALSE, t |-> "none", members |-> <<>>]

\* what analyzeIssueWithKnowledgeBase does: it returns a value or throws
Throws == [threw |-> TRUE, t |-> "none", members |-> <<>>]
Returns(parsed) ==
    [threw |-> FALSE, t |-> parsed.t, members |-> parsed.members]

\* the Bedrock responses: the request rejected, a body without text, a text
BedrockRejected == [rejected |-> TRUE, hasText |-> FALSE, text |-> <<>>]
BedrockNoText == [rejected |-> FALSE, hasText |-> FALSE, text |-> <<>>]
BedrockText(ts) == [rejected |-> FALSE, hasText |-> TRUE, text |-> ts]

\* 93-115
AnalyzeIssue(resp) ==
    IF resp.rejected \/ ~resp.hasText THEN Throws
    ELSE LET parsed ==
                 SolutionParse(Trim(StripFences(ExtractJson(resp.text))))
         IN IF parsed.ok THEN Returns(parsed) ELSE Throws

\* the parsing at rest
SolIdle ==
    /\ solObject = <<>>
    /\ solText = <<>>
    /\ solResult = Throws
    /\ solBare = Throws
    /\ solPc = "idle"

(***************************************************************************)
(* The working tree of the issue agent and the run of processIssue at      *)
(* rest.                                                                   *)
(***************************************************************************)
TreePaths == {<<"f">>, <<"g">>, <<"h">>}

\* the checked-out tree: f and g exist, h does not
InitialTree ==
    [p \in TreePaths |->
        CASE p = <<"f">> -> [exists |-> TRUE, content |-> <<"a">>]
          [] p = <<"g">> -> [exists |-> TRUE, content |-> <<"a", "a">>]
          [] OTHER -> [exists |-> FALSE, content |-> <<>>]]

IsIdle ==
    /\ isPc = "idle"
    /\ baseBranch = "none"
    /\ branch = "none"
    /\ issueResponse = BedrockRejected
    /\ solution = NoSol
    /\ changeIdx = 0
    /\ tree = InitialTree
    /\ applyLog = <<>>
    /\ trace = <<>>

\* reviewPR before it is called
RvIdle ==
    /\ rvPc = "idle"
    /\ files = <<>>
    /\ headSha = "none"
    /\ fileIdx = 0
    /\ reviewIdx = 0
    /\ processedFiles = 0
    /\ skippedFiles = 0
    /\ errorFiles = 0
    /\ aiLog = <<>>
    /\ commentCalls = <<>>
    /\ summaries = 0

(***************************************************************************)
(* reviewPR, the position scan (pr-review.js 143-169).                     *)
(***************************************************************************)
\* line.startsWith('@@') and the header pattern matches
IsHunkHeader(line) ==
    /\ StartsWith(line.head, <<"@", "@">>)
    /\ line.newStart > 0

\* the loop body from index i (1-based) with the counter as it stands
RECURSIVE ScanFrom(_, _, _, _)
ScanFrom(lines, target, i, lineCounter) ==
    IF i > Len(lines) THEN NoPosition
    ELSE LET line == lines[i] IN
        IF IsHunkHeader(line)
        THEN ScanFrom(lines, target, i + 1, line.newStart - 1)
        ELSE IF ~StartsWith(line.head, <<"-", "-", "-">>)
                /\ ~StartsWith(line.head, <<"+", "+", "+">>)
        THEN LET counted ==
                     IF ~StartsWith(line.head, <<"-">>)
                     THEN lineCounter + 1
                     ELSE lineCounter
             IN IF counted = target
                THEN i
                ELSE ScanFrom(lines, target, i + 1, counted)
        ELSE ScanFrom(lines, target, i + 1, lineCounter)

FindPosition(lines, target) == ScanFrom(lines, target, 1, 0)

(***************************************************************************)
(* JSON values, as JSON.parse yields them.  A value carries its type tag,  *)
(* its number n or its characters s and, for an object, its line and       *)
(* comment properties (Undefined when the object has none).                *)
(***************************************************************************)
Undefined == [t |-> "undefined", n |-> 0, s |-> <<>>]
JNull == [t |-> "null", n |-> 0, s |-> <<>>]
JNum(k) == [t |-> "number", n |-> k, s |-> <<>>]
JStr(cs) == [t |-> "string", n |-> 0, s |-> cs]

JScalar(v) ==
    [t |-> v.t, n |-> v.n, s |-> v.s, line |-> Undefined, comment |-> Undefined,
     items |-> <<>>]
JObject(l, c) ==
    [t |-> "object", n |-> 0, s |-> <<>>, line |-> l, comment |-> c,
     items |-> <<>>]
JArray(xs) ==
    [t |-> "array", n |-> 0, s |-> <<>>, line |-> Undefined,
     comment |-> Undefined, items |-> xs]

\* the typeof operator
TypeOf(v) == IF v.t \in {"null", "array", "object"} THEN "object" ELSE v.t

(***************************************************************************)
(* The text of a model response, as a sequence of tokens: brackets,        *)
(* commas, whitespace, whole JSON values, prose and code-fence markers.    *)
(***************************************************************************)
Tok(k) == [k |-> k, v |-> JScalar(Undefined)]
ValTok(v) == [k |-> "value", v |-> v]

\* JSON.parse: [ok |-> FALSE] for a SyntaxError
ParseFailed == [ok |-> FALSE, value |-> JScalar(Undefined)]
Parsed(v) == [ok |-> TRUE, value |-> v]

JsonParse(text) ==
    LET ts == SelectSeq(text, LAMBDA tok : ~IsSpace(tok))
        n == Len(ts)
    IN
    IF n = 1 /\ ts[1].k = "value" THEN Parsed(ts[1].v)
    ELSE IF n >= 2 /\ ts[1].k = "[" /\ ts[n].k = "]"
    THEN IF n = 2 THEN Parsed(JArray(<<>>))
         ELSE IF /\ n % 2 = 1
                 /\ \A i \in 2..(n - 1) :
                        IF i % 2 = 0 THEN ts[i].k = "value" ELSE ts[i].k = ","
         THEN Parsed(JArray([j \in 1..((n - 1) \div 2) |-> ts[2 * j].v]))
         ELSE ParseFailed
    ELSE ParseFailed

(***************************************************************************)
(* getReview (pr-review.js 25-91).                                         *)
(***************************************************************************)
\* the "no reviews" result, and a list of reviews
NoReviews == [isNull |-> TRUE, list |-> <<>>]
ReviewList(xs) == [isNull |-> FALSE, list |-> xs]

\* the filter callback reads review.line of null: a TypeError
FilterThrows(review) == TypeOf(review) = "object" /\ review.t = "null"

\* the filter callback (72-80)
FilterKeeps(review) ==
    /\ TypeOf(review) = "object"
    /\ TypeOf(review.line) = "number"
    /\ TypeOf(review.comment) = "string"
    /\ review.line.n > 0
    /\ Len(review.comment.s) > 0

\* response?.content?.[0]?.text?.trim() || null, then JSON.parse of it
ReviewText(resp) == IF resp.hasText THEN Trim(resp.text) ELSE <<>>

ParseReviewText(reviewText) ==
    IF reviewText = <<>> THEN Parsed(JScalar(JNull)) ELSE JsonParse(reviewText)

\* getReview taking a lone JSON value for a list of one
GetReviewWrapsValue(resp) ==
    IF resp.rejected THEN NoReviews
    ELSE LET parsed == ParseReviewText(ReviewText(resp)) IN
         IF ~parsed.ok THEN NoReviews
         ELSE LET items == IF parsed.value.t = "array"
                           THEN parsed.value.items
                           ELSE <<parsed.value>>
              IN IF \E i \in 1..Len(items) : FilterThrows(items[i])
                 THEN NoReviews
                 ELSE ReviewList(SelectSeq(items, FilterKeeps))

GetReview(resp) ==
    IF resp.rejected THEN NoReviews
    ELSE LET parsed == ParseReviewText(ReviewText(resp)) IN
         IF ~parsed.ok THEN NoReviews
         ELSE IF parsed.value.t # "array" THEN NoReviews
         ELSE IF \E i \in 1..Len(parsed.value.items) :
                     FilterThrows(parsed.value.items[i])
         THEN NoReviews
         ELSE ReviewList(SelectSeq(parsed.value.items, FilterKeeps))

(***************************************************************************)
(* The responses getReview is run on.                                      *)
(***************************************************************************)
LineValues ==
    {Undefined, JNull, JNum(-1), JNum(0), JNum(1), JNum(5), JStr(<<"5">>)}
CommentValues ==
    {Undefined, JNull, JNum(1), JStr(<<>>), JStr(<<"o", "k">>)}

Elements ==
    {JObject(l, c) : l \in LineValues, c \in CommentValues}
        \cup {JScalar(JNull), JScalar(JNum(7)), JScalar(JStr(<<"s">>)),
              JArray(<<>>)}

RECURSIVE Join(_)
Join(xs) ==
    IF xs = <<>> THEN <<>>
    ELSE IF Len(xs) = 1 THEN <<ValTok(xs[1])>>
    ELSE <<ValTok(xs[1]), Tok(",")>> \o Join(Tail(xs))

\* JSON.stringify of an array of values
ArrayText(xs) == <<Tok("[")>> \o Join(xs) \o <<Tok("]")>>

SeqsUpTo(S, n) == UNION {[1..k -> S] : k \in 0..n}

Rejected == [rejected |-> TRUE, hasText |-> FALSE, text |-> <<>>]
NoText == [rejected |-> FALSE, hasText |-> FALSE, text |-> <<>>]
Text(ts) == [rejected |-> FALSE, hasText |-> TRUE, text |-> ts]

\* what may surround or replace the JSON array in a response
BrokenTexts(xs) ==
    {<<Tok("prose")>>,
     <<Tok("prose")>> \o ArrayText(xs),
     <<Tok("fence"), Tok("ws")>> \o ArrayText(xs) \o <<Tok("ws"), Tok("fence")>>,
     <<Tok("[")>> \o Join(xs),
     <<Tok("[")>> \o Join(xs) \o <<Tok(","), Tok("]")>>}

ResponsesOver(E, n) ==
    {Rejected, NoText, Text(<<>>), Text(<<Tok("ws")>>)}
        \cup {Text(<<ValTok(e)>>) : e \in E}
        \cup {Text(ArrayText(xs)) : xs \in SeqsUpTo(E, n)}
        \cup {Text(<<Tok("ws")>> \o ArrayText(xs) \o <<Tok("ws")>>) :
                xs \in SeqsUpTo(E, n)}
        \cup UNION {{Text(b) : b \in BrokenTexts(xs)} : xs \in SeqsUpTo(E, 1)}

GrIdle ==
    /\ response = Rejected
    /\ reviews = NoReviews
    /\ grPc = "idle"

GrInit ==
    /\ response \in ResponsesOver(Elements, MaxReviews)
    /\ reviews = NoReviews
    /\ grPc = "call"
    /\ LocIdle
    /\ RvIdle
    /\ ChIdle
    /\ SolIdle
    /\ IsIdle

CallGetReview ==
    /\ grPc = "call"
    /\ reviews' = GetReview(response)
    /\ grPc' = "returned"
    /\ UNCHANGED response
    /\ UNCHANGED <<locVars, rvVars, chVars, solVars, isVars>>

GrNext == CallGetReview

SpecGetReview == GrInit /\ [][GrNext]_vars

(***************************************************************************)
(* The patches the scan is run on: the lines of a unified diff, drawn one  *)
(* at a time.  Optional "---"/"+++" file markers, then hunks in new-file   *)
(* order with at least one line not shown between two hunks; a             *)
(* "\ No newline at end of file" marker only at the end of either file.    *)
(***************************************************************************)
HeaderIndexes(p) == {i \in 1..Len(p) : p[i].head[1] = "@"}

FirstHeader(p) ==
    CHOOSE i \in HeaderIndexes(p) : \A j \in HeaderIndexes(p) : i <= j

\* the hunk header governing line i
HeaderOf(p, i) ==
    CHOOSE h \in HeaderIndexes(p) :
        /\ h <= i
        /\ \A j \in HeaderIndexes(p) : j <= i => j <= h

\* what line i of the diff is, read as the diff format defines it
LineKind(p, i) ==
    IF HeaderIndexes(p) = {} \/ i < FirstHeader(p) THEN "marker"
    ELSE CASE p[i].head[1] = "@" -> "header"
           [] p[i].head[1] = "+" -> "added"
           [] p[i].head[1] = "-" -> "removed"
           [] p[i].head[1] = " " -> "context"
           [] OTHER -> "nonewline"

InNewFile(p, i) == LineKind(p, i) \in {"added", "context"}

\* the new-file line number of line i, recomputed from its hunk header
NewFileNumber(p, i) ==
    LET h == HeaderOf(p, i) IN
    p[h].newStart + Cardinality({j \in (h + 1)..(i - 1) : InNewFile(p, j)})

\* the first new-file line number after the lines of the patch so far
NextNewNumber(p) ==
    LET h == HeaderOf(p, Len(p)) IN
    p[h].newStart + Cardinality({j \in (h + 1)..Len(p) : InNewFile(p, j)})

NoNewlineIndexes(p) == {i \in 1..Len(p) : LineKind(p, i) = "nonewline"}

CanAppend(p, l) ==
    IF p = <<>> THEN l = OldFileMarker \/ l.newStart > 0
    ELSE IF HeaderIndexes(p) = {}
    THEN IF Len(p) = 1 THEN l = NewFileMarker ELSE l.newStart > 0
    ELSE LET last == Len(p)
             marks == NoNewlineIndexes(p)
         IN
         CASE l.newStart > 0 ->
                  /\ LineKind(p, last) # "header"
                  /\ marks = {}
                  /\ l.newStart > NextNewNumber(p)
           [] l = NoNewlineLine ->
                  \/ /\ marks = {}
                     /\ LineKind(p, last) \in {"added", "context", "removed"}
                  \/ /\ Cardinality(marks) = 1
                     /\ LineKind(p, last) = "added"
           [] OTHER ->
                  \/ marks = {}
                  \/ /\ Cardinality(marks) = 1
                     /\ l.head[1] = "+"
                     /\ \E m \in marks : LineKind(p, m - 1) = "removed"

\* a patch that ends inside a hunk
CompletePatch(p) ==
    /\ HeaderIndexes(p) # {}
    /\ LineKind(p, Len(p)) # "header"

LocInit ==
    /\ patch = <<>>
    /\ reviewLine = 0
    /\ position = NoPosition
    /\ locPc = "build"
    /\ GrIdle
    /\ RvIdle
    /\ ChIdle
    /\ SolIdle
    /\ IsIdle

AppendPatchLine ==
    /\ locPc = "build"
    /\ Len(patch) < MaxPatchLines
    /\ \E l \in DiffLines :
        /\ CanAppend(patch, l)
        /\ patch' = Append(patch, l)
    /\ UNCHANGED <<reviewLine, position, locPc>>
    /\ UNCHANGED <<grVars, rvVars, chVars, solVars, isVars>>

\* one review comment of the AI is located in the patch
Locate ==
    /\ locPc = "build"
    /\ CompletePatch(patch)
    /\ \E target \in 1..MaxReviewLine :
        /\ reviewLine' = target
        /\ position' = FindPosition(patch, target)
    /\ locPc' = "done"
    /\ UNCHANGED patch
    /\ UNCHANGED <<grVars, rvVars, chVars, solVars, isVars>>

LocNext == AppendPatchLine \/ Locate

SpecLocator == LocInit /\ [][LocNext]_vars

(***************************************************************************)
(* Claims about the locator.                                               *)
(***************************************************************************)
\* the lines of the patch that carry new-file number n
LinesNumbered(p, n) ==
    {i \in 1..Len(p) : InNewFile(p, i) /\ NewFileNumber(p, i) = n}

\* C1: whenever the target is the new-file number of an added or context
\* line of the patch, the scan returns the index of an added or context
\* line whose recomputed new-file number is the target.
C1_RoundTrip ==
    (locPc = "done" /\ LinesNumbered(patch, reviewLine) # {})
        => /\ position # NoPosition
           /\ position \in LinesNumbered(patch, reviewLine)

\* C2: whenever no added or context line of the patch has the target as its
\* new-file number, the scan leaves position unset.
C2_NotFound ==
    (locPc = "done" /\ LinesNumbered(patch, reviewLine) = {})
        => position = NoPosition

\* C3: a target in the new-file range of a later hunk resolves to a
\* position after that hunk's header.
C3_LaterHunk ==
    locPc = "done" =>
        \A i \in LinesNumbered(patch, reviewLine) :
            HeaderOf(patch, i) # FirstHeader(patch)
                => /\ position # NoPosition
                   /\ position > HeaderOf(patch, i)

(***************************************************************************)
(* Claims about getReview.                                                 *)
(***************************************************************************)
\* the array the response text parses to, when it parses to one
ResponseArray(resp) == ParseReviewText(ReviewText(resp)).value.items

ParsesAsArray(resp) ==
    /\ ~resp.rejected
    /\ ParseReviewText(ReviewText(resp)).ok
    /\ ParseReviewText(ReviewText(resp)).value.t = "array"

\* an object with a numeric line > 0 and a non-empty string comment
ValidEntry(e) ==
    /\ e.t = "object"
    /\ e.line.t = "number" /\ e.line.n > 0
    /\ e.comment.t = "string" /\ e.comment.s # <<>>

\* C4: when the model text parses as a JSON array, getReview returns exactly
\* the valid entries of the array, in order; every other element is dropped
\* without losing the valid ones.
C4_Validation ==
    (grPc = "returned" /\ ParsesAsArray(response))
        => reviews = ReviewList(SelectSeq(ResponseArray(response), ValidEntry))

(***************************************************************************)
(* reviewPR (pr-review.js 93-211).  One action per awaited call and per    *)
(* iteration of the two loops.                                             *)
(***************************************************************************)
\* the i flag of the extension pattern
LowerCase(tok) ==
    CASE tok = "PNG" -> "png"
      [] tok = "Pdf" -> "pdf"
      [] OTHER -> tok

BinaryExtensions == {"pdf", "docx", "prof", "png", "jpg", "jpeg", "gif"}

\* the pattern without its i flag
MatchesBinaryCaseSensitive(filename) ==
    /\ Len(filename) >= 2
    /\ filename[Len(filename) - 1] = "."
    /\ filename[Len(filename)] \in BinaryExtensions

\* file.filename.match(/\.(pdf|docx|prof|png|jpg|jpeg|gif)$/i), the name
\* given as its pieces: <<"a", ".", "png">>
MatchesBinary(filename) ==
    /\ Len(filename) >= 2
    /\ filename[Len(filename) - 1] = "."
    /\ LowerCase(filename[Len(filename)]) \in BinaryExtensions

\* the test that skips a file (120-123)
Skippable(file) == file.status = "removed" \/ MatchesBinary(file.filename)

File(st, name, p) == [status |-> st, filename |-> name, patch |-> p]

\* the files a listing may hold; patch <<>> stands for a file without patch
FileKinds ==
    {File("modified", <<"a", ".", "js">>,
          <<HunkHeader(1), ContextLine, RemovedLine, AddedLine>>),
     File("modified", <<"b", ".", "js">>, <<>>),
     File("removed", <<"c", ".", "js">>, <<>>),
     File("added", <<"d", ".", "PNG">>, <<>>),
     File("added", <<"e", ".", "png", ".", "js">>, <<>>)}

\* the entries the AI may return in the run of reviewPR
DriverElements ==
    {JObject(JNum(1), JStr(<<"o", "k">>)),
     JObject(JNum(5), JStr(<<"o", "k">>)),
     JObject(JNum(-1), JStr(<<"o", "k">>)),
     JScalar(JNull)}

DriverResponses ==
    {Rejected, NoText, Text(<<Tok("prose")>>)}
        \cup {Text(<<ValTok(e)>>) : e \in DriverElements}
        \cup {Text(ArrayText(xs)) : xs \in SeqsUpTo(DriverElements, MaxReviews)}

\* the statuses a failed createReviewComment call carries
ErrorStatuses == {404, 422}

RvInit ==
    /\ rvPc = "listFiles"
    /\ files = <<>>
    /\ headSha = "none"
    /\ fileIdx = 0
    /\ reviewIdx = 0
    /\ processedFiles = 0
    /\ skippedFiles = 0
    /\ errorFiles = 0
    /\ aiLog = <<>>
    /\ commentCalls = <<>>
    /\ summaries = 0
    /\ LocIdle
    /\ GrIdle
    /\ ChIdle
    /\ SolIdle
    /\ IsIdle

\* 103-106
ListFiles ==
    /\ rvPc = "listFiles"
    /\ files' \in SeqsUpTo(FileKinds, MaxFiles)
    /\ rvPc' = "getPR"
    /\ UNCHANGED <<headSha, fileIdx, reviewIdx, rvCounters, aiLog,
                   commentCalls, summaries>>
    /\ UNCHANGED <<locVars, grVars, chVars, solVars, isVars>>

\* 103-106 rejecting: the outer catch (206-210) annotates and rethrows
ListFilesFails ==
    /\ rvPc = "listFiles"
    /\ rvPc' = "raised"
    /\ UNCHANGED <<files, headSha, fileIdx, reviewIdx, rvCounters, aiLog,
                   commentCalls, summaries>>
    /\ UNCHANGED <<locVars, grVars, chVars, solVars, isVars>>

\* 109-117
GetPullRequest ==
    /\ rvPc = "getPR"
    /\ headSha' \in {"sha1", "sha2"}
    /\ fileIdx' = 1
    /\ rvPc' = "file"
    /\ UNCHANGED <<files, reviewIdx, rvCounters, aiLog, commentCalls,
                   summaries>>
    /\ UNCHANGED <<locVars, grVars, chVars, solVars, isVars>>

\* 109-112 rejecting
GetPullRequestFails ==
    /\ rvPc = "getPR"
    /\ rvPc' = "raised"
    /\ UNCHANGED <<files, headSha, fileIdx, reviewIdx, rvCounters, aiLog,
                   commentCalls, summaries>>
    /\ UNCHANGED <<locVars, grVars, chVars, solVars, isVars>>

\* 119-127
SkipFile ==
    /\ rvPc = "file"
    /\ fileIdx <= Len(files)
    /\ Skippable(files[fileIdx])
    /\ skippedFiles' = skippedFiles + 1
    /\ fileIdx' = fileIdx + 1
    /\ UNCHANGED <<rvPc, files, headSha, reviewIdx, processedFiles,
                   errorFiles, aiLog, commentCalls, summaries>>
    /\ UNCHANGED <<locVars, grVars, chVars, solVars, isVars>>

\* 129-136: the getReview call for the file
RequestReview ==
    /\ rvPc = "file"
    /\ fileIdx <= Len(files)
    /\ ~Skippable(files[fileIdx])
    /\ \E resp \in DriverResponses :
        /\ response' = resp
        /\ reviews' = GetReview(resp)
        /\ aiLog' = Append(aiLog, [file |-> fileIdx,
                                   isNull |-> GetReview(resp).isNull])
    /\ reviewIdx' = 1
    /\ rvPc' = "comments"
    /\ UNCHANGED <<files, headSha, fileIdx, rvCounters, commentCalls,
                   summaries, grPc>>
    /\ UNCHANGED <<locVars, chVars, solVars, isVars>>

\* the reviews the inner loop runs over (136-137)
LoopReviews == IF reviews.isNull THEN <<>> ELSE reviews.list

\* 138-141
SkipCommentNoPatch ==
    /\ rvPc = "comments"
    /\ reviewIdx <= Len(LoopReviews)
    /\ files[fileIdx].patch = <<>>
    /\ reviewIdx' = reviewIdx + 1
    /\ UNCHANGED <<rvPc, files, headSha, fileIdx, rvCounters, aiLog,
                   commentCalls, summaries>>
    /\ UNCHANGED <<locVars, grVars, chVars, solVars, isVars>>

\* 143-169 and 181-183: the scan finds no position
CommentNotLocated ==
    /\ rvPc = "comments"
    /\ reviewIdx <= Len(LoopReviews)
    /\ files[fileIdx].patch # <<>>
    /\ patch' = files[fileIdx].patch
    /\ reviewLine' = LoopReviews[reviewIdx].line.n
    /\ position' = FindPosition(patch', reviewLine')
    /\ position' = NoPosition
    /\ reviewIdx' = reviewIdx + 1
    /\ UNCHANGED <<rvPc, files, headSha, fileIdx, rvCounters, aiLog,
                   commentCalls, summaries, locPc>>
    /\ UNCHANGED <<grVars, chVars, solVars, isVars>>

\* a call that posts the line number as the position
CommentCallAtLine(ok) ==
    [file |-> fileIdx, review |-> reviewIdx,
     line |-> LoopReviews[reviewIdx].line.n,
     position |-> LoopReviews[reviewIdx].line.n,
     commit |-> headSha, ok |-> ok, status |-> IF ok THEN 201 ELSE 0]

\* the arguments of createReviewComment (172-179)
CommentCall(ok) ==
    [file |-> fileIdx, review |-> reviewIdx,
     line |-> LoopReviews[reviewIdx].line.n,
     position |-> FindPosition(files[fileIdx].patch,
                               LoopReviews[reviewIdx].line.n),
     commit |-> headSha, ok |-> ok, status |-> IF ok THEN 201 ELSE 0]

\* a loop that posts the comments of a file from the last to the first
PostCommentReversed ==
    /\ rvPc = "comments"
    /\ reviewIdx <= Len(LoopReviews)
    /\ files[fileIdx].patch # <<>>
    /\ patch' = files[fileIdx].patch
    /\ reviewLine' = LoopReviews[Len(LoopReviews) + 1 - reviewIdx].line.n
    /\ position' = FindPosition(patch', reviewLine')
    /\ position' # NoPosition
    /\ commentCalls' =
           Append(commentCalls,
                  [file |-> fileIdx, review |-> Len(LoopReviews) + 1 - reviewIdx,
                   line |-> reviewLine', position |-> position',
                   commit |-> headSha, ok |-> TRUE, status |-> 201])
    /\ processedFiles' = processedFiles + 1
    /\ reviewIdx' = reviewIdx + 1
    /\ UNCHANGED <<rvPc, files, headSha, fileIdx, skippedFiles, errorFiles,
                   aiLog, summaries, locPc>>
    /\ UNCHANGED <<grVars, chVars, solVars, isVars>>

\* 143-180: the scan finds a position and the comment is posted
PostComment ==
    /\ rvPc = "comments"
    /\ reviewIdx <= Len(LoopReviews)
    /\ files[fileIdx].patch # <<>>
    /\ patch' = files[fileIdx].patch
    /\ reviewLine' = LoopReviews[reviewIdx].line.n
    /\ position' = FindPosition(patch', reviewLine')
    /\ position' # NoPosition
    /\ commentCalls' = Append(commentCalls, CommentCall(TRUE))
    /\ processedFiles' = processedFiles + 1
    /\ reviewIdx' = reviewIdx + 1
    /\ UNCHANGED <<rvPc, files, headSha, fileIdx, skippedFiles, errorFiles,
                   aiLog, summaries, locPc>>
    /\ UNCHANGED <<grVars, chVars, solVars, isVars>>

\* a run that a failed createReviewComment call ends
PostCommentFailsRaises ==
    /\ rvPc = "comments"
    /\ reviewIdx <= Len(LoopReviews)
    /\ files[fileIdx].patch # <<>>
    /\ FindPosition(files[fileIdx].patch, LoopReviews[reviewIdx].line.n)
           # NoPosition
    /\ \E status \in ErrorStatuses :
        commentCalls' =
            Append(commentCalls, [CommentCall(FALSE) EXCEPT !.status = status])
    /\ rvPc' = "raised"
    /\ UNCHANGED <<files, headSha, fileIdx, reviewIdx, rvCounters, aiLog,
                   summaries>>
    /\ UNCHANGED <<locVars, grVars, chVars, solVars, isVars>>

\* 172-179 rejecting, caught by the file's catch (186-197); the variables
\* of the iteration go out of scope
PostCommentFails ==
    /\ rvPc = "comments"
    /\ reviewIdx <= Len(LoopReviews)
    /\ files[fileIdx].patch # <<>>
    /\ FindPosition(files[fileIdx].patch, LoopReviews[reviewIdx].line.n)
           # NoPosition
    /\ patch' = <<>>
    /\ reviewLine' = 0
    /\ position' = NoPosition
    /\ \E status \in ErrorStatuses :
        /\ commentCalls' =
               Append(commentCalls, [CommentCall(FALSE) EXCEPT !.status = status])
        /\ IF status # 404
           THEN errorFiles' = errorFiles + 1 /\ UNCHANGED skippedFiles
           ELSE skippedFiles' = skippedFiles + 1 /\ UNCHANGED errorFiles
    /\ fileIdx' = fileIdx + 1
    /\ reviewIdx' = 0
    /\ response' = Rejected
    /\ reviews' = NoReviews
    /\ rvPc' = "file"
    /\ UNCHANGED <<files, headSha, processedFiles, aiLog, summaries, locPc,
                   grPc>>
    /\ UNCHANGED <<chVars, solVars, isVars>>

\* the inner loop ends, or getReview returned null (136): the next file;
\* the variables of the iteration go out of scope
FinishFile ==
    /\ rvPc = "comments"
    /\ reviewIdx > Len(LoopReviews)
    /\ fileIdx' = fileIdx + 1
    /\ reviewIdx' = 0
    /\ response' = Rejected
    /\ reviews' = NoReviews
    /\ rvPc' = "file"
    /\ patch' = <<>>
    /\ reviewLine' = 0
    /\ position' = NoPosition
    /\ UNCHANGED <<files, headSha, rvCounters, aiLog, commentCalls,
                   summaries, grPc, locPc>>
    /\ UNCHANGED <<chVars, solVars, isVars>>

\* 200-204
EmitSummary ==
    /\ rvPc = "file"
    /\ fileIdx > Len(files)
    /\ summaries' = summaries + 1
    /\ rvPc' = "done"
    /\ UNCHANGED <<files, headSha, fileIdx, reviewIdx, rvCounters, aiLog,
                   commentCalls>>
    /\ UNCHANGED <<locVars, grVars, chVars, solVars, isVars>>

RvNext ==
    \/ ListFiles
    \/ ListFilesFails
    \/ GetPullRequest
    \/ GetPullRequestFails
    \/ SkipFile
    \/ RequestReview
    \/ SkipCommentNoPatch
    \/ CommentNotLocated
    \/ PostComment
    \/ PostCommentFails
    \/ FinishFile
    \/ EmitSummary

SpecReview == RvInit /\ [][RvNext]_vars

(***************************************************************************)
(* Claims about the run of reviewPR.                                       *)
(***************************************************************************)
\* the responses that hold no review list: the request failed, the text is
\* empty, is not parseable JSON, or parses to something that is no array
FailedResponse(resp) ==
    \/ resp.rejected
    \/ ~resp.hasText
    \/ Trim(resp.text) = <<>>
    \/ ~JsonParse(Trim(resp.text)).ok
    \/ JsonParse(Trim(resp.text)).value.t # "array"

CommentCallsFor(i) ==
    {k \in 1..Len(commentCalls) : commentCalls[k].file = i}

RequestedFiles == {aiLog[k].file : k \in 1..Len(aiLog)}

\* C5: a response that holds no review list makes getReview return null
\* without raising; no comment is posted for that file, the run does not
\* abort, and every remaining file of the list is still processed.
C5_ReviewFailureNonFatal ==
    /\ (rvPc = "comments" /\ FailedResponse(response))
           => /\ reviews = NoReviews
              /\ CommentCallsFor(fileIdx) = {}
    /\ \A k \in 1..Len(aiLog) :
           aiLog[k].isNull => CommentCallsFor(aiLog[k].file) = {}
    /\ rvPc = "raised" => aiLog = <<>>
    /\ \A i \in 1..Len(files) :
           (i < fileIdx) => (Skippable(files[i]) \/ i \in RequestedFiles)
    /\ rvPc = "done" => fileIdx = Len(files) + 1

\* a file whose review failed is followed by a file that is reviewed and
\* commented on
C5_Witness ==
    /\ rvPc = "done"
    /\ Len(aiLog) = 2
    /\ aiLog[1].isNull
    /\ ~aiLog[2].isNull
    /\ CommentCallsFor(aiLog[2].file) # {}

(***************************************************************************)
(* One change applied to one file content: the inputs of lines 134-143.    *)
(***************************************************************************)
ContentChars == {"a", "b"}
\* "tick" is the backtick and "apos" the apostrophe
ReplacementChars == {"a", "$", "&", "tick", "apos"}

StringsUpTo(S, n) == UNION {[1..k -> S] : k \in 0..n}

ChInit ==
    /\ chContent \in StringsUpTo(ContentChars, MaxContentLen)
    /\ chChange \in
           {Change(Str(<<"f">>), o, Str(r)) :
               o \in {Missing} \cup
                     {Str(cs) : cs \in StringsUpTo(ContentChars, MaxOriginalLen)},
               r \in StringsUpTo(ReplacementChars, MaxReplacementLen) \ {<<>>}}
    /\ chResult = <<>>
    /\ chPc = "read"
    /\ LocIdle
    /\ GrIdle
    /\ RvIdle
    /\ SolIdle
    /\ IsIdle

ApplyOneChange ==
    /\ chPc = "read"
    /\ chResult' = ApplyChange(chContent, chChange)
    /\ chPc' = "written"
    /\ UNCHANGED <<chContent, chChange>>
    /\ UNCHANGED <<locVars, grVars, rvVars, solVars, isVars>>

ChNext == ApplyOneChange

SpecChange == ChInit /\ [][ChNext]_vars

(***************************************************************************)
(* Claims about one change.                                                *)
(***************************************************************************)
\* the places where o occurs in c
Occurrences(o, c) ==
    {k \in 1..(Len(c) - Len(o) + 1) : SubSeq(c, k, k + Len(o) - 1) = o}

Occurs(o, c) == Occurrences(o, c) # {}

\* c with the first occurrence of o replaced by r, character for character
LiteralReplaceFirst(c, o, r) ==
    LET i == CHOOSE k \in Occurrences(o, c) :
                 \A j \in Occurrences(o, c) : k <= j
    IN SubSeq(c, 1, i - 1) \o r \o SubSeq(c, i + Len(o), Len(c))

\* C8: when the original occurs in the content, the new content is the
\* content with the first occurrence replaced by the replacement text taken
\* literally; without an original the new content is the replacement.
C8_ChangeResult ==
    chPc = "written" =>
        /\ (chChange.original.present /\ chChange.original.s # <<>>
                /\ Occurs(chChange.original.s, chContent))
               => chResult = LiteralReplaceFirst(chContent,
                                 chChange.original.s, chChange.replacement.s)
        /\ ~chChange.original.present => chResult = chChange.replacement.s

(***************************************************************************)
(* The parsing of the solution, run on a JSON object text alone and on a   *)
(* response built around that text.                                        *)
(***************************************************************************)
ObjectTokens ==
    {STok("{"), STok("}"), STok("m"), STok("mf"), STok("nl"), STok("ws")}

\* the texts that are one JSON object, "{" first and "}" last
JsonObjectTexts ==
    {ts \in StringsUpTo(ObjectTokens, MaxObjectLen) :
        /\ SolutionParse(ts).ok
        /\ ts[1].k = "{"
        /\ ts[Len(ts)].k = "}"}

\* prose before or after the JSON: none, words, words with braces
Prose ==
    {<<>>,
     <<STok("p"), STok("ws")>>,
     <<STok("{"), STok("p"), STok("}"), STok("nl")>>}

FencedWraps(object) ==
    {pre \o <<STok("fj"), STok("nl")>> \o object \o <<STok("nl"), STok("f")>>
         \o post : pre \in Prose, post \in Prose}

ProseWraps(object) == {pre \o object \o post : pre \in Prose, post \in Prose}

SolInit ==
    /\ solObject \in JsonObjectTexts
    /\ solText \in FencedWraps(solObject) \cup ProseWraps(solObject)
    /\ solResult = Throws
    /\ solBare = Throws
    /\ solPc = "response"
    /\ LocIdle
    /\ GrIdle
    /\ RvIdle
    /\ ChIdle
    /\ IsIdle

\* the analysis of the response built around the object
AnalyzeResponse ==
    /\ solPc = "response"
    /\ solResult' = AnalyzeIssue(BedrockText(solText))
    /\ solPc' = "object"
    /\ UNCHANGED <<solObject, solText, solBare>>
    /\ UNCHANGED <<locVars, grVars, rvVars, chVars, isVars>>

\* the analysis of the object alone
AnalyzeObject ==
    /\ solPc = "object"
    /\ solBare' = AnalyzeIssue(BedrockText(solObject))
    /\ solPc' = "both"
    /\ UNCHANGED <<solObject, solText, solResult>>
    /\ UNCHANGED <<locVars, grVars, rvVars, chVars, isVars>>

SolNext == AnalyzeResponse \/ AnalyzeObject

SpecSolution == SolInit /\ [][SolNext]_vars

(***************************************************************************)
(* Claims about the parsing of the solution.                               *)
(***************************************************************************)
\* C6: a response that holds a JSON object as a json fenced block, with or
\* without prose around the block, gives the same parsed value as the
\* object alone.
C6_FenceEquivalence ==
    (solPc = "both" /\ solText \in FencedWraps(solObject))
        => /\ ~solResult.threw
           /\ solResult = solBare

\* a fenced object with prose that holds braces ahead of the block
C6_Witness ==
    /\ solPc = "both"
    /\ solText \in FencedWraps(solObject)
    /\ solText[1].k = "{"
    /\ \E i \in 1..Len(solObject) : solObject[i].k = "mf"
    /\ \E i \in 1..Len(solObject) : solObject[i].k = "nl"
    /\ ~solBare.threw

(***************************************************************************)
(* processIssue (issue agent 155-222) with applyChanges (118-153).  One    *)
(* action per awaited call or git command and per iteration of the loop of *)
(* applyChanges.                                                           *)
(***************************************************************************)
\* the ChangeSpecs a solution of the run may hold
DriverChanges ==
    {Change(f, o, r) :
        f \in {Missing, Str(<<"f">>), Str(<<"g">>), Str(<<"h">>)},
        o \in {Missing, Str(<<"a">>)},
        r \in {Missing, Str(<<>>), Str(<<"b">>), Str(<<"a">>)}}

Solution(cs) == [files |-> TRUE, hasChanges |-> TRUE, changes |-> cs]

\* the solutions: a changes list, or an object without files or changes
DriverSolutions ==
    {Solution(cs) : cs \in SeqsUpTo(DriverChanges, MaxChanges)}
        \cup {[files |-> FALSE, hasChanges |-> TRUE, changes |-> <<>>],
              [files |-> TRUE, hasChanges |-> FALSE, changes |-> <<>>]}

ObjectText(sol) == <<STok("{"), SolTok(sol), STok("}")>>

\* what Bedrock may answer in the run
IssueResponses ==
    {BedrockRejected, BedrockNoText, BedrockText(<<>>),
     BedrockText(<<STok("p"), STok("ws"), STok("p")>>),
     BedrockText(<<STok("7"), STok("7")>>),
     BedrockText(<<STok("{"), STok("m")>>),
     BedrockText(<<STok("{"), STok("m"), STok("}")>>)}
        \cup {BedrockText(ObjectText(sol)) : sol \in DriverSolutions}
        \cup {BedrockText(<<STok("p"), STok("nl"), STok("fj"), STok("nl")>>
                              \o ObjectText(sol) \o <<STok("nl"), STok("f")>>) :
                sol \in {Solution(cs) : cs \in SeqsUpTo(DriverChanges, 1)}}

\* the solution object the caller reads: the members the text carried
SolutionOf(result) ==
    LET carried == {i \in 1..Len(result.members) : result.members[i].k = "sol"}
    IN IF result.t = "object" /\ carried # {}
       THEN result.members[Least(carried)].sol
       ELSE NoSol

\* 183: the call returns the solution or throws into the catch of 218-221
AnalysisOutcomeWithDefault(resp) ==
    LET result == AnalyzeIssue(resp) IN
    IF result.threw
    THEN [threw |-> FALSE,
          solution |-> Solution(<<Change(Str(<<"f">>), Missing, Str(<<"b">>))>>)]
    ELSE [threw |-> FALSE, solution |-> SolutionOf(result)]

AnalysisOutcome(resp) ==
    LET result == AnalyzeIssue(resp) IN
    IF result.threw
    THEN [threw |-> TRUE, solution |-> NoSol]
    ELSE [threw |-> FALSE, solution |-> SolutionOf(result)]

IsInit ==
    /\ isPc = "extract"
    /\ baseBranch = "none"
    /\ branch = "none"
    /\ issueResponse = BedrockRejected
    /\ solution = NoSol
    /\ changeIdx = 0
    /\ tree = InitialTree
    /\ applyLog = <<>>
    /\ trace = <<>>
    /\ LocIdle
    /\ GrIdle
    /\ RvIdle
    /\ ChIdle
    /\ SolIdle

Others == <<locVars, grVars, rvVars, chVars, solVars>>

\* the run ends in the catch of 218-221, which rethrows
Raise(event) ==
    /\ isPc' = "raised"
    /\ trace' = Append(trace, event)

\* 162-164: extractBranchInfo never throws; no branch found means main
ExtractBranch ==
    /\ isPc = "extract"
    /\ baseBranch' \in {"main", "dev"}
    /\ isPc' = "checkout"
    /\ UNCHANGED <<branch, issueResponse, solution, changeIdx, tree,
                   applyLog, trace>>
    /\ UNCHANGED Others

\* 172-174
Checkout ==
    /\ isPc = "checkout"
    /\ branch' = "origin"
    /\ trace' = Append(trace, "checkout")
    /\ isPc' = "analyze"
    /\ UNCHANGED <<baseBranch, issueResponse, solution, changeIdx, tree,
                   applyLog>>
    /\ UNCHANGED Others

\* 173 or 174 failing: the catch of 175-179 goes on to the fallback
CheckoutFails ==
    /\ isPc = "checkout"
    /\ trace' = Append(trace, "checkoutFailed")
    /\ isPc' = "fallback"
    /\ UNCHANGED <<baseBranch, branch, issueResponse, solution, changeIdx,
                   tree, applyLog>>
    /\ UNCHANGED Others

\* 178
Fallback ==
    /\ isPc = "fallback"
    /\ branch' = "local"
    /\ trace' = Append(trace, "fallback")
    /\ isPc' = "analyze"
    /\ UNCHANGED <<baseBranch, issueResponse, solution, changeIdx, tree,
                   applyLog>>
    /\ UNCHANGED Others

\* a run that asks for the solution although the fallback failed
FallbackFailsContinues ==
    /\ isPc = "fallback"
    /\ trace' = Append(trace, "fallbackFailed")
    /\ isPc' = "analyze"
    /\ UNCHANGED <<baseBranch, branch, issueResponse, solution, changeIdx,
                   tree, applyLog>>
    /\ UNCHANGED Others

\* 178 failing
FallbackFails ==
    /\ isPc = "fallback"
    /\ Raise("fallbackFailed")
    /\ UNCHANGED <<baseBranch, branch, issueResponse, solution, changeIdx,
                   tree, applyLog>>
    /\ UNCHANGED Others

\* 183
Analyze ==
    /\ isPc = "analyze"
    /\ \E resp \in IssueResponses :
        /\ issueResponse' = resp
        /\ solution' = AnalysisOutcome(resp).solution
        /\ IF AnalysisOutcome(resp).threw
           THEN Raise("analyzeFailed")
           ELSE /\ isPc' = "solution"
                /\ trace' = Append(trace, "analyze")
    /\ UNCHANGED <<baseBranch, branch, changeIdx, tree, applyLog>>
    /\ UNCHANGED Others

\* 185 and 119: solution.files.join and the iteration of solution.changes
StartApply ==
    /\ isPc = "solution"
    /\ solution.files
    /\ solution.hasChanges
    /\ changeIdx' = 1
    /\ isPc' = "apply"
    /\ UNCHANGED <<baseBranch, branch, issueResponse, solution, tree,
                   applyLog, trace>>
    /\ UNCHANGED Others

\* 185 or 119 throwing a TypeError: files or changes is missing
SolutionShapeFails ==
    /\ isPc = "solution"
    /\ ~solution.files \/ ~solution.hasChanges
    /\ Raise("solutionShapeFailed")
    /\ UNCHANGED <<baseBranch, branch, issueResponse, solution, changeIdx,
                   tree, applyLog>>
    /\ UNCHANGED Others

\* the change of the iteration
CurrentChange == solution.changes[changeIdx]

InLoop == isPc = "apply" /\ changeIdx <= Len(solution.changes)

\* the test of line 120
InvalidChange(change) == Falsy(change.file) \/ Falsy(change.replacement)

LogEntry(outcome, before, after) ==
    [change |-> CurrentChange, outcome |-> outcome, before |-> before,
     after |-> after]

\* 120-123
SkipInvalidChange ==
    /\ InLoop
    /\ InvalidChange(CurrentChange)
    /\ applyLog' = Append(applyLog, LogEntry("skippedInvalid", <<>>, <<>>))
    /\ changeIdx' = changeIdx + 1
    /\ UNCHANGED <<isPc, baseBranch, branch, issueResponse, solution, tree,
                   trace>>
    /\ UNCHANGED Others

\* 129-132
SkipMissingFile ==
    /\ InLoop
    /\ ~InvalidChange(CurrentChange)
    /\ ~tree[CurrentChange.file.s].exists
    /\ applyLog' = Append(applyLog, LogEntry("skippedMissing", <<>>, <<>>))
    /\ changeIdx' = changeIdx + 1
    /\ UNCHANGED <<isPc, baseBranch, branch, issueResponse, solution, tree,
                   trace>>
    /\ UNCHANGED Others

\* 134-147
WriteChange ==
    /\ InLoop
    /\ ~InvalidChange(CurrentChange)
    /\ tree[CurrentChange.file.s].exists
    /\ LET path == CurrentChange.file.s
           content == tree[path].content
           written == ApplyChange(content, CurrentChange)
       IN /\ tree' = [tree EXCEPT ![path].content = written]
          /\ applyLog' = Append(applyLog, LogEntry("written", content, written))
    /\ changeIdx' = changeIdx + 1
    /\ UNCHANGED <<isPc, baseBranch, branch, issueResponse, solution, trace>>
    /\ UNCHANGED Others

\* a loop that logs the failed read and goes on with the next change
ReadFailsContinues ==
    /\ InLoop
    /\ ~InvalidChange(CurrentChange)
    /\ tree[CurrentChange.file.s].exists
    /\ LET content == tree[CurrentChange.file.s].content
       IN applyLog' = Append(applyLog, LogEntry("readFailed", content, content))
    /\ changeIdx' = changeIdx + 1
    /\ UNCHANGED <<isPc, baseBranch, branch, issueResponse, solution, tree,
                   trace>>
    /\ UNCHANGED Others

\* 135 throwing: the catch of 148-151 rethrows
ReadFails ==
    /\ InLoop
    /\ ~InvalidChange(CurrentChange)
    /\ tree[CurrentChange.file.s].exists
    /\ LET content == tree[CurrentChange.file.s].content
       IN applyLog' = Append(applyLog, LogEntry("readFailed", content, content))
    /\ Raise("applyFailed")
    /\ UNCHANGED <<baseBranch, branch, issueResponse, solution, changeIdx,
                   tree>>
    /\ UNCHANGED Others

\* 146 throwing: the catch of 148-151 rethrows
WriteFails ==
    /\ InLoop
    /\ ~InvalidChange(CurrentChange)
    /\ tree[CurrentChange.file.s].exists
    /\ LET content == tree[CurrentChange.file.s].content
       IN applyLog' = Append(applyLog, LogEntry("writeFailed", content, content))
    /\ Raise("applyFailed")
    /\ UNCHANGED <<baseBranch, branch, issueResponse, solution, changeIdx,
                   tree>>
    /\ UNCHANGED Others

\* 189 returns
FinishApply ==
    /\ isPc = "apply"
    /\ changeIdx > Len(solution.changes)
    /\ trace' = Append(trace, "apply")
    /\ isPc' = "add"
    /\ UNCHANGED <<baseBranch, branch, issueResponse, solution, changeIdx,
                   tree, applyLog>>
    /\ UNCHANGED Others

\* a git command or API call returns: the run goes on to the next one
Proceed(event, next) ==
    /\ trace' = Append(trace, event)
    /\ isPc' = next
    /\ UNCHANGED <<baseBranch, branch, issueResponse, solution, changeIdx,
                   tree, applyLog>>
    /\ UNCHANGED Others

\* a git command or API call throws into the catch of 218-221
Abort(event) ==
    /\ Raise(event)
    /\ UNCHANGED <<baseBranch, branch, issueResponse, solution, changeIdx,
                   tree, applyLog>>
    /\ UNCHANGED Others

\* 193
GitAdd ==
    /\ isPc = "add"
    /\ Proceed("add", "commit")

GitAddFails ==
    /\ isPc = "add"
    /\ Abort("addFailed")

\* 194: git commit has something to commit only if the tree changed
GitCommit ==
    /\ isPc = "commit"
    /\ tree # InitialTree
    /\ Proceed("commit", "push")

GitCommitFails ==
    /\ isPc = "commit"
    /\ Abort("commitFailed")

\* 197
GitPush ==
    /\ isPc = "push"
    /\ Proceed("push", "createPR")

\* a run that goes on to the pull request after a failed push
GitPushFailsContinues ==
    /\ isPc = "push"
    /\ Proceed("pushFailed", "createPR")

GitPushFails ==
    /\ isPc = "push"
    /\ Abort("pushFailed")

\* 201-207
CreatePullRequest ==
    /\ isPc = "createPR"
    /\ Proceed("pullRequest", "comment")

CreatePullRequestFails ==
    /\ isPc = "createPR"
    /\ Abort("pullRequestFailed")

\* 210-216
CreateComment ==
    /\ isPc = "comment"
    /\ Proceed("comment", "done")

CreateCommentFails ==
    /\ isPc = "comment"
    /\ Abort("commentFailed")

IsNext ==
    \/ ExtractBranch
    \/ Checkout
    \/ CheckoutFails
    \/ Fallback
    \/ FallbackFails
    \/ Analyze
    \/ StartApply
    \/ SolutionShapeFails
    \/ SkipInvalidChange
    \/ SkipMissingFile
    \/ WriteChange
    \/ ReadFails
    \/ WriteFails
    \/ FinishApply
    \/ GitAdd
    \/ GitAddFails
    \/ GitCommit
    \/ GitCommitFails
    \/ GitPush
    \/ GitPushFails
    \/ CreatePullRequest
    \/ CreatePullRequestFails
    \/ CreateComment
    \/ CreateCommentFails

SpecIssue == IsInit /\ [][IsNext]_vars

(***************************************************************************)
(* Claims about the issue run.                                             *)
(***************************************************************************)
Happened(events) == \E i \in 1..Len(trace) : trace[i] \in events

\* line 183 has returned or thrown
Analysed == Happened({"analyze", "analyzeFailed"})

\* C7: when the request to the model fails or the solution text does not
\* parse, the run ends raising the error, no file of the tree is written and
\* nothing is committed, pushed, opened as a pull request or commented.
C7_MalformedSolutionFatal ==
    (Analysed /\ AnalyzeIssue(issueResponse).threw) =>
        /\ isPc = "raised"
        /\ tree = InitialTree
        /\ applyLog = <<>>
        /\ ~Happened({"apply", "add", "commit", "push", "pullRequest",
                      "comment"})

C7_Witness ==
    /\ Analysed
    /\ issueResponse = BedrockText(<<STok("{"), STok("m")>>)
    /\ AnalyzeIssue(issueResponse).threw
    /\ isPc = "raised"

\* the change of the entry names an original that is not in the text
Spent(entry, text) ==
    /\ ~Falsy(entry.change.original)
    /\ ~Occurs(entry.change.original.s, text)

\* C9: a written change whose original does not occur in the content it
\* read leaves the content as it was, an error in the loop comes from the
\* file system only, and the same change applied twice in a row, its
\* original gone after the first time, leaves what the first time left.
C9_SpentChangeIdempotent ==
    /\ \A i \in 1..Len(applyLog) :
        (applyLog[i].outcome = "written" /\ Spent(applyLog[i], applyLog[i].before))
            => applyLog[i].after = applyLog[i].before
    /\ \A i \in 1..Len(applyLog) :
        (applyLog[i].outcome \notin {"readFailed", "writeFailed"})
            => (i < Len(applyLog) \/ ~Happened({"applyFailed"}))
    /\ \A i \in 1..(Len(applyLog) - 1) :
        (/\ applyLog[i].outcome = "written"
         /\ applyLog[i + 1].outcome = "written"
         /\ applyLog[i + 1].change = applyLog[i].change
         /\ Spent(applyLog[i], applyLog[i].after))
            => applyLog[i + 1].after = applyLog[i].after

C9_Witness ==
    \E i \in 1..(Len(applyLog) - 1) :
        /\ applyLog[i].outcome = "written"
        /\ applyLog[i + 1].outcome = "written"
        /\ applyLog[i + 1].change = applyLog[i].change
        /\ applyLog[i].after # applyLog[i].before
        /\ Spent(applyLog[i + 1], applyLog[i + 1].before)
        /\ tree[applyLog[i].change.file.s].content = applyLog[i].after
        /\ isPc = "add"

\* the target of the change is a file of the tree
TargetExists(change) ==
    change.file.s \in TreePaths /\ tree[change.file.s].exists

\* C10: a change is skipped exactly when its file or its replacement is
\* missing or its target does not exist; every other change is written,
\* whatever its replacement text is.
C10_SkipRule ==
    \A i \in 1..Len(applyLog) :
        LET entry == applyLog[i] IN
        entry.outcome \in {"skippedInvalid", "skippedMissing", "written"} =>
            (entry.outcome # "written"
                <=> \/ ~entry.change.file.present
                    \/ ~entry.change.replacement.present
                    \/ ~TargetExists(entry.change))

\* the entries of the log that wrote the file at path
WritesOf(path) ==
    {i \in 1..Len(applyLog) :
        applyLog[i].outcome = "written" /\ applyLog[i].change.file.s = path}

\* what the writes of the log left in the file at path
ContentLeft(path) ==
    IF WritesOf(path) = {} THEN InitialTree[path].content
    ELSE applyLog[Greatest(WritesOf(path))].after

IoFailed(i) == applyLog[i].outcome \in {"readFailed", "writeFailed"}

\* C11: when the read or the write of the k-th change fails the run ends
\* raising at once: the k-th entry is the last of the log, the changes
\* after it are never looked at, the files written before it keep what was
\* written, and nothing is added, committed, pushed, opened or commented.
C11_IoFailureFatal ==
    \A k \in 1..Len(applyLog) :
        IoFailed(k) =>
            /\ isPc = "raised"
            /\ k = Len(applyLog)
            /\ changeIdx = k
            /\ applyLog[k].change = solution.changes[k]
            /\ \A path \in TreePaths : tree[path].content = ContentLeft(path)
            /\ ~Happened({"apply", "add", "commit", "push", "pullRequest",
                          "comment"})

C11_Witness ==
    /\ Len(applyLog) = 2
    /\ IoFailed(2)
    /\ applyLog[1].outcome = "written"
    /\ applyLog[1].after # applyLog[1].before
    /\ tree # InitialTree
    /\ isPc = "raised"

\* the steps of a run in their order; git add belongs to the commit step
StepRank(event) ==
    CASE event \in {"checkout", "fallback"} -> 1
      [] event = "analyze" -> 2
      [] event = "apply" -> 3
      [] event = "add" -> 4
      [] event = "commit" -> 5
      [] event = "push" -> 6
      [] event = "pullRequest" -> 7
      [] event = "comment" -> 8
      [] OTHER -> 0

Succeeded(i) == StepRank(trace[i]) > 0

\* the steps of the trace that succeeded, without the failed first checkout
Performed ==
    IF trace # <<>> /\ trace[1] = "checkoutFailed" THEN Tail(trace) ELSE trace

\* C12: the steps of a run happen in the order branch, solution, changes,
\* commit, push, pull request, comment, each at most once and only after
\* all the earlier ones succeeded; a failure other than that of the first
\* checkout is the last thing of the run, which ends raising.
C12_StepOrder ==
    /\ \A i \in 1..Len(Performed) :
        \/ StepRank(Performed[i]) = i
        \/ /\ StepRank(Performed[i]) = 0
           /\ i = Len(Performed)
           /\ isPc = "raised"
    /\ \A i \in 1..Len(trace) : trace[i] = "checkoutFailed" => i = 1
    /\ isPc = "raised" <=> (trace # <<>> /\ ~Succeeded(Len(trace))
                                /\ trace[Len(trace)] # "checkoutFailed")
    /\ isPc = "done" <=> Happened({"comment"})
    /\ applyLog # <<>> => (Happened({"analyze"}) /\ isPc # "analyze")
    /\ Happened({"apply"}) => Len(applyLog) = Len(solution.changes)

C12_Witness ==
    /\ trace = <<"checkoutFailed", "fallback", "analyze", "apply", "add",
                 "commit", "push", "pullRequest", "comment">>
    /\ isPc = "done"

\* how many events of the trace are among the given ones
Count(events) == Cardinality({i \in 1..Len(trace) : trace[i] \in events})

\* C13: a failed checkout from origin is followed by exactly one fallback;
\* the fallback succeeding, the run goes on to the solution request; the
\* fallback failing, the run ends raising with nothing requested, written,
\* committed, pushed or opened; after a successful checkout from origin the
\* fallback is never run.
C13_CheckoutFallback ==
    /\ Count({"fallback", "fallbackFailed"}) <= 1
    /\ Happened({"checkoutFailed"}) =>
        /\ trace[1] = "checkoutFailed"
        /\ IF Len(trace) = 1 THEN isPc = "fallback"
           ELSE trace[2] \in {"fallback", "fallbackFailed"}
    /\ Happened({"fallback", "fallbackFailed"}) =>
        (Happened({"checkoutFailed"}) /\ ~Happened({"checkout"}))
    /\ Happened({"fallback"}) =>
        /\ branch = "local"
        /\ Len(trace) = 2 => isPc = "analyze"
    /\ Happened({"fallbackFailed"}) =>
        /\ isPc = "raised"
        /\ trace = <<"checkoutFailed", "fallbackFailed">>
        /\ branch = "none"
        /\ tree = InitialTree
        /\ applyLog = <<>>
    /\ Happened({"checkout"}) =>
        /\ branch = "origin"
        /\ trace[1] = "checkout"
        /\ Count({"checkout", "checkoutFailed"}) = 1

C13_Witness ==
    /\ trace = <<"checkoutFailed", "fallbackFailed">>
    /\ isPc = "raised"

(***************************************************************************)
(* Claims about the run of reviewPR.                                       *)
(***************************************************************************)
\* the createReviewComment calls that were rejected, all or those with the
\* given statuses
FailedCalls == {k \in 1..Len(commentCalls) : ~commentCalls[k].ok}

FailedCallsWith(statuses) ==
    {k \in FailedCalls : commentCalls[k].status \in statuses}

\* the files the loop is done with
FilesDone == {i \in 1..Len(files) : i < fileIdx}

SkippedByTest == {i \in FilesDone : Skippable(files[i])}

\* C14: a rejected createReviewComment call ends the review of its file
\* only: it adds one to errored, or one to skipped when its status is 404,
\* the loop goes on with the next file and the summary is still emitted;
\* the run raises only when the listing or the metadata fetch fails.
C14_PerFileContainment ==
    /\ errorFiles = Cardinality(FailedCallsWith(ErrorStatuses \ {404}))
    /\ skippedFiles =
           Cardinality(SkippedByTest) + Cardinality(FailedCallsWith({404}))
    /\ \A k \in FailedCalls :
        /\ commentCalls[k].file \in FilesDone
        /\ \A j \in CommentCallsFor(commentCalls[k].file) : j <= k
    /\ \A i \in FilesDone : Skippable(files[i]) \/ i \in RequestedFiles
    /\ rvPc = "done" => (summaries = 1 /\ fileIdx = Len(files) + 1)
    /\ rvPc = "raised" =>
           (fileIdx = 0 /\ aiLog = <<>> /\ commentCalls = <<>> /\ summaries = 0)

C14_Witness ==
    /\ rvPc = "done"
    /\ summaries = 1
    /\ Len(files) = 2
    /\ \E k \in FailedCallsWith({422}) : commentCalls[k].file = 1
    /\ \E k \in CommentCallsFor(2) : commentCalls[k].ok
    /\ errorFiles = 1

\* the step issues one AI request, for a file after all those requested
RequestsNext ==
    /\ Len(aiLog') = Len(aiLog) + 1
    /\ SubSeq(aiLog', 1, Len(aiLog)) = aiLog
    /\ \A k \in 1..Len(aiLog) : aiLog[k].file < aiLog'[Len(aiLog')].file
    /\ aiLog'[Len(aiLog')].file = fileIdx
    /\ \A i \in 1..(fileIdx - 1) : Skippable(files[i]) \/ i \in RequestedFiles
    /\ commentCalls' = commentCalls

\* the step posts one comment, of the file requested last and after the
\* comments already posted for it
PostsNext ==
    /\ Len(commentCalls') = Len(commentCalls) + 1
    /\ SubSeq(commentCalls', 1, Len(commentCalls)) = commentCalls
    /\ aiLog # <<>>
    /\ LET call == commentCalls'[Len(commentCalls')] IN
        /\ call.file = aiLog[Len(aiLog)].file
        /\ call.review \in 1..Len(LoopReviews)
        /\ call.line = LoopReviews[call.review].line.n
        /\ \A k \in 1..Len(commentCalls) :
            \/ commentCalls[k].file < call.file
            \/ /\ commentCalls[k].file = call.file
               /\ commentCalls[k].review < call.review
    /\ aiLog' = aiLog

\* C15: files are requested in the order of the listing and the comments of
\* a file are posted in the order of the review list, each call on its own:
\* a step issues at most one call, a request only for a later file than
\* every earlier one, a comment only for the file requested last and only
\* after the earlier comments of that file.
C15_PostingOrder ==
    [][/\ aiLog' # aiLog => RequestsNext
       /\ commentCalls' # commentCalls => PostsNext]_vars

C15_Witness ==
    /\ Len(commentCalls) = 3
    /\ commentCalls[1].file = 1 /\ commentCalls[1].review = 1
    /\ commentCalls[2].file = 1 /\ commentCalls[2].review = 2
    /\ commentCalls[3].file = 2
    /\ Len(aiLog) = 2

\* the calls made for the review at index j of the file at index i
CallsOf(i, j) ==
    {k \in CommentCallsFor(i) : commentCalls[k].review = j}

\* the scan finds the line of the review at index j of the current file
Located(j) ==
    /\ files[fileIdx].patch # <<>>
    /\ FindPosition(files[fileIdx].patch, LoopReviews[j].line.n) # NoPosition

\* C16: createReviewComment is called at most once for a review, only for a
\* file with a patch and a line the scan located, with the located position
\* and the head commit of the pull request; a review whose line is not
\* located gets no call and the reviews after it are still gone through.
C16_OnlyLocatedPosted ==
    /\ \A k \in 1..Len(commentCalls) :
        LET call == commentCalls[k] IN
        /\ files[call.file].patch # <<>>
        /\ call.position = FindPosition(files[call.file].patch, call.line)
        /\ call.position # NoPosition
        /\ call.commit = headSha
        /\ Cardinality(CallsOf(call.file, call.review)) = 1
    /\ rvPc = "comments" =>
        \A j \in 1..Len(LoopReviews) :
            IF j < reviewIdx /\ Located(j)
            THEN \E k \in CallsOf(fileIdx, j) :
                     /\ commentCalls[k].ok
                     /\ commentCalls[k].line = LoopReviews[j].line.n
            ELSE CallsOf(fileIdx, j) = {}

C16_Witness ==
    /\ rvPc = "comments"
    /\ Len(LoopReviews) = 2
    /\ reviewIdx = 3
    /\ ~Located(1)
    /\ CallsOf(fileIdx, 1) = {}
    /\ CallsOf(fileIdx, 2) # {}

\* the name ends in a dot and one of the extensions, in either case
EndsInBinaryExtension(name) ==
    \E ext \in {"pdf", "docx", "prof", "png", "jpg", "jpeg", "gif"} :
        /\ Len(name) >= 2
        /\ name[Len(name) - 1] = "."
        /\ LowerCase(name[Len(name)]) = ext

NonReviewable(file) ==
    file.status = "removed" \/ EndsInBinaryExtension(file.filename)

RequestsFor(i) == {k \in 1..Len(aiLog) : aiLog[k].file = i}

\* C17: a listed file that is removed or whose name ends in a binary
\* extension gets no AI request and no comment and adds exactly one to
\* skipped; every other listed file gets exactly one AI request.
C17_NonReviewableSkipped ==
    /\ \A i \in FilesDone :
        IF NonReviewable(files[i])
        THEN RequestsFor(i) = {} /\ CommentCallsFor(i) = {}
        ELSE Cardinality(RequestsFor(i)) = 1
    /\ skippedFiles - Cardinality(FailedCallsWith({404})) =
           Cardinality({i \in FilesDone : NonReviewable(files[i])})
    /\ \A k \in 1..Len(aiLog) : ~NonReviewable(files[aiLog[k].file])

C17_Witness ==
    /\ rvPc = "done"
    /\ Len(files) = 2
    /\ files[1].filename = <<"d", ".", "PNG">>
    /\ files[2].filename = <<"e", ".", "png", ".", "js">>
    /\ skippedFiles = 1
    /\ RequestsFor(1) = {}
    /\ RequestsFor(2) # {}

(***************************************************************************)
(* Claims about the text analyzeIssueWithKnowledgeBase parses.             *)
(***************************************************************************)
\* the characters JSON.parse is handed for the response text ts (107)
ParserInput(ts) == Flatten(Trim(StripFences(ExtractJson(ts))))

\* the text of the stated preference: the fenced block, else the region of
\* braces, else the response itself
PreferredText(ts) ==
    IF FenceMatches(ts)
    THEN SubSeq(ts, FenceOpen(ts) + 2, FenceClose(ts) - 1)
    ELSE IF BraceMatches(ts) THEN BraceText(ts)
    ELSE ts

\* C18: the text handed to the JSON parser is the content of the first
\* json fenced block, else the region from the first opening brace to the
\* last closing brace, else the response text itself, each without fence
\* markers and surrounding white space.
C18_ExtractionPreference ==
    (Analysed /\ issueResponse.hasText) =>
        ParserInput(issueResponse.text)
            = Flatten(Trim(StripFences(PreferredText(issueResponse.text))))

(***************************************************************************)
(* Claims about the changes of a solution as a whole.                      *)
(***************************************************************************)
\* a change the skip rule does not skip: it has a file and a replacement
\* and its target exists
Applicable(change) ==
    /\ change.file.present
    /\ change.replacement.present
    /\ TargetExists(change)

\* the content of the file at path after the changes, taken in list order
RECURSIVE FoldChanges(_, _, _)
FoldChanges(content, changes, path) ==
    IF changes = <<>> THEN content
    ELSE LET change == Head(changes)
             next == IF Applicable(change) /\ change.file.s = path
                     THEN ApplyChange(content, change)
                     ELSE content
         IN FoldChanges(next, Tail(changes), path)

\* C19: when applyChanges returns, the content of every file is the fold,
\* in list order, of the applicable changes that name it over its initial
\* content, and a file no applicable change names is as it was.
C19_ChangesFold ==
    Happened({"apply"}) =>
        \A path \in TreePaths :
            /\ tree[path].exists = InitialTree[path].exists
            /\ tree[path].content =
                   FoldChanges(InitialTree[path].content, solution.changes, path)

(***************************************************************************)
(* Claims about the counters of reviewPR.                                  *)
(***************************************************************************)
\* the files a comment was posted for
CommentedFiles ==
    {i \in 1..Len(files) : \E k \in CommentCallsFor(i) : commentCalls[k].ok}

\* C20: a run whose listing and metadata fetch succeed emits exactly one
\* summary, after the last file, and its three counts are counts of files:
\* processed counts files that were commented on, and the three together
\* never exceed the number of files listed.
C20_ReviewCounters ==
    /\ summaries <= 1
    /\ summaries = 1 <=> rvPc = "done"
    /\ rvPc = "done" => fileIdx = Len(files) + 1
    /\ processedFiles <= Cardinality(CommentedFiles)
    /\ processedFiles + skippedFiles + errorFiles <= Len(files)

====
